---- MODULE Spec2Model ----
(***************************************************************************)
(* Model of the three artifacts of the repository:                         *)
(*   - the deployment script (src/unnamed/part_001), one action per        *)
(*     command or test of the script, run under `set -e`;                  *)
(*   - the transactions service (transactions/server.js);                  *)
(*   - the survey-form validator (src/unnamed/part_000).                   *)
(* Each artifact has its own specification over the shared variables.      *)
(***************************************************************************)
EXTENDS Integers, Sequences, FiniteSets, TLC

VARIABLES
    \* ---- deployment script: the host it runs on
    tools,              \* which commands exist / whether the daemon answers
    files,              \* which required files and directories exist in the cwd
    portKind,           \* who listens on each port before the script starts
    \* ---- deployment script: its own state
    pc,                 \* position in the script
    portIdx,            \* index of the for loop over REQUIRED_PORTS
    stopped,            \* docker-compose down has removed the deployment, and no up since
    started,            \* docker-compose up has started the containers
    RETRY_COUNT,        \* unset (0 in arithmetic) until line 180
    NGINX_CONTAINER_ID,
    exitCode,           \* -1 while running
    haltedAt,           \* the position at which the script exited
    calls,              \* the container actions and probes issued so far
    warnings,           \* ports reported "still in use"
    phases,             \* the phases entered so far
    resp,               \* the outcome of each probe of the health check under way
    probed,             \* the endpoints (ports) probed so far
    healthy,            \* the endpoints whose health check has succeeded
    guardExit,          \* a polling loop was left by its guard becoming false
    \* ---- transactions service
    db, conn, reqs, store, storeAtStart,
    \* ---- form validator
    dom, lastErrors, defaultPrevented, navigated, submits

deployVars == <<tools, files, portKind, pc, portIdx, stopped, started, RETRY_COUNT,
                NGINX_CONTAINER_ID, exitCode, haltedAt, calls, warnings, phases,
                resp, probed, healthy, guardExit>>
serverVars == <<db, conn, reqs, store, storeAtStart>>
formVars   == <<dom, lastErrors, defaultPrevented, navigated, submits>>
vars       == <<deployVars, serverVars, formVars>>

(***************************************************************************)
(* Deployment script                                                       *)
(***************************************************************************)

MAX_RETRIES == 10

REQUIRED_PORTS == <<80, 5000, 3000, 27017>>

RequiredPortSet == {REQUIRED_PORTS[i] : i \in 1..Len(REQUIRED_PORTS)}

\* Ports of the host other than the required ones that something may listen on.
OtherPorts == {8080}

AllPorts == RequiredPortSet \cup OtherPorts

\* The exit status of a failing docker / grep command: some non-zero value.
FailStatus == {1, 125}

DigitChar == <<"0", "1", "2", "3", "4", "5", "6", "7", "8", "9">>

RECURSIVE Digits(_)
Digits(n) == IF n < 10 THEN <<DigitChar[n + 1]>>
             ELSE Append(Digits(n \div 10), DigitChar[(n % 10) + 1])

\* Something listens on port q now: a foreign process, or the prior deployment
\* as long as no docker-compose down has removed it.
Listening(q) == \/ portKind[q] = "foreign"
                \/ portKind[q] = "managed" /\ ~stopped

\* One line of `netstat -an` for a listening socket.
NetstatLine(q) == <<"tcp", " ", "0.0.0.0", ":">> \o Digits(q)
                  \o <<" ", "0.0.0.0", ":", "*", " ", "LISTEN">>

\* `netstat -an 2>/dev/null`: nothing when netstat is not installed.
NetstatOutput == IF tools.netstat
                 THEN {NetstatLine(q) : q \in {p \in AllPorts : Listening(p)}}
                 ELSE {}

\* grep -q ":$port.*LISTEN" on one line: ":" and the digits of $port anywhere
\* in the line, LISTEN anywhere after them.
GrepPortListen(port, line) ==
    LET d == Digits(port) IN
    \E i \in 1..Len(line) :
        /\ line[i] = ":"
        /\ i + Len(d) <= Len(line)
        /\ \A k \in 1..Len(d) : line[i + k] = d[k]
        /\ \E j \in (i + Len(d) + 1)..Len(line) : line[j] = "LISTEN"

\* lsof -Pi :$port -sTCP:LISTEN -t
LsofListen(port) == tools.lsof /\ Listening(port)

\* The test of lines 66 and 70.
PortInUse(port) == \/ \E line \in NetstatOutput : GrepPortListen(port, line)
                   \/ LsofListen(port)

PhaseOf(p) ==
    CASE p \in {"check_docker", "check_compose", "check_daemon"} -> 1
      [] p \in {"port_check", "port_down", "port_recheck"} -> 2
      [] p \in {"check_compose_file", "check_backend_dir", "check_portfolio_dir",
                "check_nginx_conf"} -> 3
      [] p = "cleanup" -> 4
      [] p = "build" -> 5
      [] p \in {"list_images", "show_containers", "get_nginx_id"} -> 6
      [] p \in {"backend_init", "backend_loop", "backend_probe",
                "frontend_init", "frontend_loop", "frontend_probe"} -> 7
      [] p = "inspect" -> 8
      [] p = "summary" -> 9

\* Control passes to the next command.
Goto(next) ==
    /\ pc' = next
    /\ phases' = IF PhaseOf(next) # phases[Len(phases)]
                 THEN Append(phases, PhaseOf(next)) ELSE phases
    /\ UNCHANGED <<exitCode, haltedAt>>

\* `exit code`, or a failing command under set -e.
Exit(code) ==
    /\ pc' = "halted"
    /\ exitCode' = code
    /\ haltedAt' = pc
    /\ UNCHANGED phases

\* What no step of the script changes: the host, and the other two artifacts.
hostVars == <<tools, files, portKind, serverVars, formVars>>

\* docker-compose down [-v] ... || true: when it succeeds the prior deployment
\* (and the ports it held) is gone; its failure is swallowed.
ComposeDown(ok) ==
    /\ stopped' = (stopped \/ (ok /\ tools.composeBin))
    /\ started' = IF ok /\ tools.composeBin THEN FALSE ELSE started

\* ---- SECTION 1: pre-deployment checks

CheckDocker ==
    /\ pc = "check_docker"
    /\ IF ~tools.docker THEN Exit(1) ELSE Goto("check_compose")
    /\ UNCHANGED <<hostVars, portIdx, stopped, started, RETRY_COUNT, NGINX_CONTAINER_ID,
                   calls, warnings, resp, probed, healthy, guardExit>>

CheckCompose ==
    /\ pc = "check_compose"
    /\ IF ~tools.composeBin /\ ~tools.composePlugin THEN Exit(1) ELSE Goto("check_daemon")
    /\ UNCHANGED <<hostVars, portIdx, stopped, started, RETRY_COUNT, NGINX_CONTAINER_ID,
                   calls, warnings, resp, probed, healthy, guardExit>>

CheckDaemon ==
    /\ pc = "check_daemon"
    /\ IF ~tools.daemon THEN Exit(1) ELSE Goto("port_check")
    /\ UNCHANGED <<hostVars, portIdx, stopped, started, RETRY_COUNT, NGINX_CONTAINER_ID,
                   calls, warnings, resp, probed, healthy, guardExit>>

\* for port in "${REQUIRED_PORTS[@]}" and the test of line 66
PortCheck ==
    /\ pc = "port_check"
    /\ IF portIdx > Len(REQUIRED_PORTS)
       THEN Goto("check_compose_file") /\ UNCHANGED portIdx
       ELSE IF PortInUse(REQUIRED_PORTS[portIdx])
            THEN Goto("port_down") /\ UNCHANGED portIdx
            ELSE Goto("port_check") /\ portIdx' = portIdx + 1
    /\ UNCHANGED <<hostVars, stopped, started, RETRY_COUNT, NGINX_CONTAINER_ID,
                   calls, warnings, resp, probed, healthy, guardExit>>

\* PortDown with the `|| true` of line 68 left out: a failing down is fatal.
PortDownFatal ==
    /\ pc = "port_down"
    /\ calls' = Append(calls, <<"down", REQUIRED_PORTS[portIdx]>>)
    /\ \E ok \in BOOLEAN :
         /\ ComposeDown(ok)
         /\ IF ok /\ tools.composeBin THEN Goto("port_recheck") ELSE Exit(1)
    /\ UNCHANGED <<hostVars, portIdx, RETRY_COUNT, NGINX_CONTAINER_ID,
                   warnings, resp, probed, healthy, guardExit>>

\* warning; docker-compose down 2>/dev/null || true; sleep 2
PortDown ==
    /\ pc = "port_down"
    /\ calls' = Append(calls, <<"down", REQUIRED_PORTS[portIdx]>>)
    /\ \E ok \in BOOLEAN : ComposeDown(ok)
    /\ Goto("port_recheck")
    /\ UNCHANGED <<hostVars, portIdx, RETRY_COUNT, NGINX_CONTAINER_ID,
                   warnings, resp, probed, healthy, guardExit>>

\* the second test (line 70): a warning only, then the next port
PortRecheck ==
    /\ pc = "port_recheck"
    /\ warnings' = IF PortInUse(REQUIRED_PORTS[portIdx])
                   THEN warnings \cup {REQUIRED_PORTS[portIdx]} ELSE warnings
    /\ portIdx' = portIdx + 1
    /\ Goto("port_check")
    /\ UNCHANGED <<hostVars, stopped, started, RETRY_COUNT, NGINX_CONTAINER_ID,
                   calls, resp, probed, healthy, guardExit>>

\* ---- SECTION 2: directory and file validation

CheckComposeFile ==
    /\ pc = "check_compose_file"
    /\ IF ~files.composeYaml /\ ~files.composeYml
       THEN Exit(1) ELSE Goto("check_backend_dir")
    /\ UNCHANGED <<hostVars, portIdx, stopped, started, RETRY_COUNT, NGINX_CONTAINER_ID,
                   calls, warnings, resp, probed, healthy, guardExit>>

CheckBackendDir ==
    /\ pc = "check_backend_dir"
    /\ IF ~files.backendDir THEN Exit(1) ELSE Goto("check_portfolio_dir")
    /\ UNCHANGED <<hostVars, portIdx, stopped, started, RETRY_COUNT, NGINX_CONTAINER_ID,
                   calls, warnings, resp, probed, healthy, guardExit>>

CheckPortfolioDir ==
    /\ pc = "check_portfolio_dir"
    /\ IF ~files.portfolioDir THEN Exit(1) ELSE Goto("check_nginx_conf")
    /\ UNCHANGED <<hostVars, portIdx, stopped, started, RETRY_COUNT, NGINX_CONTAINER_ID,
                   calls, warnings, resp, probed, healthy, guardExit>>

\* CheckNginxConf without its exit 1: the error is printed and the script goes on.
CheckNginxConfNoExit ==
    /\ pc = "check_nginx_conf"
    /\ Goto("cleanup")
    /\ UNCHANGED <<hostVars, portIdx, stopped, started, RETRY_COUNT, NGINX_CONTAINER_ID,
                   calls, warnings, resp, probed, healthy, guardExit>>

CheckNginxConf ==
    /\ pc = "check_nginx_conf"
    /\ IF ~files.nginxConf THEN Exit(1) ELSE Goto("cleanup")
    /\ UNCHANGED <<hostVars, portIdx, stopped, started, RETRY_COUNT, NGINX_CONTAINER_ID,
                   calls, warnings, resp, probed, healthy, guardExit>>

\* ---- SECTION 3: docker-compose down -v 2>/dev/null || true

\* Cleanup with the `|| true` of line 126 left out: a failing down -v is fatal.
CleanupFatal ==
    /\ pc = "cleanup"
    /\ calls' = Append(calls, <<"down -v", 0>>)
    /\ \E ok \in BOOLEAN :
         /\ ComposeDown(ok)
         /\ IF ok /\ tools.composeBin THEN Goto("build") ELSE Exit(1)
    /\ UNCHANGED <<hostVars, portIdx, RETRY_COUNT, NGINX_CONTAINER_ID,
                   warnings, resp, probed, healthy, guardExit>>

Cleanup ==
    /\ pc = "cleanup"
    /\ calls' = Append(calls, <<"down -v", 0>>)
    /\ \E ok \in BOOLEAN : ComposeDown(ok)
    /\ Goto("build")
    /\ UNCHANGED <<hostVars, portIdx, RETRY_COUNT, NGINX_CONTAINER_ID,
                   warnings, resp, probed, healthy, guardExit>>

\* ---- SECTION 4: docker-compose up --build -d; sleep 30
\* The command is fatal under set -e; without a docker-compose binary the shell
\* answers 127, and a failing up may have started some of the containers.

Build ==
    /\ pc = "build"
    /\ calls' = Append(calls, <<"up", 0>>)
    /\ \/ /\ tools.composeBin
          /\ started' = TRUE
          /\ stopped' = FALSE
          /\ Goto("list_images")
       \/ /\ \E st \in (IF tools.composeBin THEN FailStatus ELSE {127}) : Exit(st)
          /\ started' \in (IF tools.composeBin THEN BOOLEAN ELSE {FALSE})
          /\ UNCHANGED stopped
    /\ UNCHANGED <<hostVars, portIdx, RETRY_COUNT, NGINX_CONTAINER_ID,
                   warnings, resp, probed, healthy, guardExit>>

\* ---- SECTION 5: validate build and deployment

\* docker images | grep -E "...": the pipeline's status is grep's
ListImages ==
    /\ pc = "list_images"
    /\ \/ Goto("show_containers")
       \/ Exit(1)
    /\ UNCHANGED <<hostVars, portIdx, stopped, started, RETRY_COUNT, NGINX_CONTAINER_ID,
                   calls, warnings, resp, probed, healthy, guardExit>>

ShowContainers ==
    /\ pc = "show_containers"
    /\ \/ Goto("get_nginx_id")
       \/ \E st \in FailStatus : Exit(st)
    /\ UNCHANGED <<hostVars, portIdx, stopped, started, RETRY_COUNT, NGINX_CONTAINER_ID,
                   calls, warnings, resp, probed, healthy, guardExit>>

ContainerIds == {"c1"}

GetNginxId ==
    /\ pc = "get_nginx_id"
    /\ \/ \E id \in ContainerIds : NGINX_CONTAINER_ID' = id /\ Goto("backend_init")
       \/ NGINX_CONTAINER_ID' = "" /\ Exit(1)
       \/ NGINX_CONTAINER_ID' = "" /\ \E st \in FailStatus : Exit(st)
    /\ UNCHANGED <<hostVars, portIdx, stopped, started, RETRY_COUNT,
                   calls, warnings, resp, probed, healthy, guardExit>>

\* ---- SECTION 6: health checks

\* while [ $RETRY_COUNT -lt $MAX_RETRIES ]
LoopGuard(n) == n < MAX_RETRIES

\* The budget test written -gt: it is never true when the counter steps by one.
BudgetExhaustedGt(n) == n > MAX_RETRIES

\* The budget test off by one: the check gives up after MAX_RETRIES - 1 probes.
BudgetExhaustedEarly(n) == n >= MAX_RETRIES - 1

\* if [ $RETRY_COUNT -eq $MAX_RETRIES ]
BudgetExhausted(n) == n = MAX_RETRIES

\* curl -f .../api/login || curl -s http://localhost:5000
ProbeBackend(login, root) == login \/ root

\* curl -f http://localhost:80 || curl -s http://localhost:80 | grep -q "Pixel River"
ProbeFrontend(page, pixelRiver) == page \/ pixelRiver

BackendInit ==
    /\ pc = "backend_init"
    /\ RETRY_COUNT' = 0
    /\ resp' = <<>>
    /\ Goto("backend_loop")
    /\ UNCHANGED <<hostVars, portIdx, stopped, started, NGINX_CONTAINER_ID,
                   calls, warnings, probed, healthy, guardExit>>

BackendLoop ==
    /\ pc = "backend_loop"
    /\ IF LoopGuard(RETRY_COUNT)
       THEN Goto("backend_probe") /\ UNCHANGED guardExit
       ELSE Goto("frontend_init") /\ guardExit' = TRUE
    /\ UNCHANGED <<hostVars, portIdx, stopped, started, RETRY_COUNT, NGINX_CONTAINER_ID,
                   calls, warnings, resp, probed, healthy>>

\* BackendProbe with `break` in the place of `exit 1`: the exhausted check falls
\* through to the frontend check.
BackendProbeBreak ==
    /\ pc = "backend_probe"
    /\ probed' = probed \cup {5000}
    /\ \E login, root \in BOOLEAN :
         /\ resp' = Append(resp, login \/ root)
         /\ IF login \/ root
            THEN /\ healthy' = healthy \cup {5000}
                 /\ Goto("frontend_init")
                 /\ UNCHANGED RETRY_COUNT
            ELSE /\ RETRY_COUNT' = RETRY_COUNT + 1
                 /\ IF RETRY_COUNT + 1 = MAX_RETRIES
                    THEN Goto("frontend_init") ELSE Goto("backend_loop")
                 /\ UNCHANGED healthy
    /\ UNCHANGED <<hostVars, portIdx, stopped, started, NGINX_CONTAINER_ID,
                   calls, warnings, guardExit>>

\* One pass of the loop body: the probe, then break, exit 1 or sleep 3
BackendProbe ==
    /\ pc = "backend_probe"
    /\ probed' = probed \cup {5000}
    /\ \E login, root \in BOOLEAN :
         /\ resp' = Append(resp, ProbeBackend(login, root))
         /\ IF ProbeBackend(login, root)
            THEN /\ healthy' = healthy \cup {5000}
                 /\ Goto("frontend_init")
                 /\ UNCHANGED RETRY_COUNT
            ELSE /\ RETRY_COUNT' = RETRY_COUNT + 1
                 /\ IF BudgetExhausted(RETRY_COUNT + 1)
                    THEN Exit(1) ELSE Goto("backend_loop")
                 /\ UNCHANGED healthy
    /\ UNCHANGED <<hostVars, portIdx, stopped, started, NGINX_CONTAINER_ID,
                   calls, warnings, guardExit>>

\* FrontendInit without RETRY_COUNT=0: the frontend check inherits the counter.
FrontendInitNoReset ==
    /\ pc = "frontend_init"
    /\ resp' = <<>>
    /\ Goto("frontend_loop")
    /\ UNCHANGED <<hostVars, portIdx, stopped, started, RETRY_COUNT, NGINX_CONTAINER_ID,
                   calls, warnings, probed, healthy, guardExit>>

FrontendInit ==
    /\ pc = "frontend_init"
    /\ RETRY_COUNT' = 0
    /\ resp' = <<>>
    /\ Goto("frontend_loop")
    /\ UNCHANGED <<hostVars, portIdx, stopped, started, NGINX_CONTAINER_ID,
                   calls, warnings, probed, healthy, guardExit>>

FrontendLoop ==
    /\ pc = "frontend_loop"
    /\ IF LoopGuard(RETRY_COUNT)
       THEN Goto("frontend_probe") /\ UNCHANGED guardExit
       ELSE Goto("inspect") /\ guardExit' = TRUE
    /\ UNCHANGED <<hostVars, portIdx, stopped, started, RETRY_COUNT, NGINX_CONTAINER_ID,
                   calls, warnings, resp, probed, healthy>>

FrontendProbe ==
    /\ pc = "frontend_probe"
    /\ probed' = probed \cup {80}
    /\ \E page, pixelRiver \in BOOLEAN :
         /\ resp' = Append(resp, ProbeFrontend(page, pixelRiver))
         /\ IF ProbeFrontend(page, pixelRiver)
            THEN /\ healthy' = healthy \cup {80}
                 /\ Goto("inspect")
                 /\ UNCHANGED RETRY_COUNT
            ELSE /\ RETRY_COUNT' = RETRY_COUNT + 1
                 /\ IF BudgetExhausted(RETRY_COUNT + 1)
                    THEN Exit(1) ELSE Goto("frontend_loop")
                 /\ UNCHANGED healthy
    /\ UNCHANGED <<hostVars, portIdx, stopped, started, NGINX_CONTAINER_ID,
                   calls, warnings, guardExit>>

\* ---- SECTION 7: docker inspect nginx:alpine > nginx-logs.txt, then the
\* grep | sed | head pipelines, whose status is that of their last command (0)

Inspect ==
    /\ pc = "inspect"
    /\ calls' = Append(calls, <<"inspect", 0>>)
    /\ \/ Goto("summary")
       \/ \E st \in FailStatus : Exit(st)
    /\ UNCHANGED <<hostVars, portIdx, stopped, started, RETRY_COUNT, NGINX_CONTAINER_ID,
                   warnings, resp, probed, healthy, guardExit>>

\* ---- SECTION 8: the summary; the script ends and the shell exits 0

Summary ==
    /\ pc = "summary"
    /\ Exit(0)
    /\ UNCHANGED <<hostVars, portIdx, stopped, started, RETRY_COUNT, NGINX_CONTAINER_ID,
                   calls, warnings, resp, probed, healthy, guardExit>>

DeployNext ==
    \/ CheckDocker \/ CheckCompose \/ CheckDaemon
    \/ PortCheck \/ PortDown \/ PortRecheck
    \/ CheckComposeFile \/ CheckBackendDir \/ CheckPortfolioDir \/ CheckNginxConf
    \/ Cleanup \/ Build
    \/ ListImages \/ ShowContainers \/ GetNginxId
    \/ BackendInit \/ BackendLoop \/ BackendProbe
    \/ FrontendInit \/ FrontendLoop \/ FrontendProbe
    \/ Inspect \/ Summary

(***************************************************************************)
(* Transactions service                                                    *)
(***************************************************************************)

\* Requests the model follows.
MaxReq == 2

\* Documents in the transactions collection.
MaxTx == 2

ReqIds == 1..MaxReq

Emails == {"ann@bank.ca", "bob@bank.ca"}

\* A stored timestamp, as the calendar date it denotes.
Timestamps == {[y |-> 2024, m |-> 1, d |-> 5], [y |-> 2024, m |-> 1, d |-> 20],
               [y |-> 2024, m |-> 2, d |-> 3]}

Transactions == [email : Emails, type : {"deposit"}, amount : {600}, timestamp : Timestamps]

Stores == UNION {[1..n -> Transactions] : n \in 0..MaxTx}

MonthName == <<"January", "February", "March", "April", "May", "June", "July",
               "August", "September", "October", "November", "December">>

\* date.toLocaleString("en-US", {month: "long", year: "numeric"})
MonthYear(ts) == <<MonthName[ts.m], ts.y>>

\* db.collection("transactions").find({ email }).toArray()
Find(email) == SelectSeq(store, LAMBDA t : t.email = email)

\* transactions.reduce((acc, transaction) => ..., {})
RECURSIVE GroupByMonth(_, _)
GroupByMonth(txs, acc) ==
    IF txs = <<>> THEN acc
    ELSE LET t    == Head(txs)
             key  == MonthYear(t.timestamp)
             acc1 == IF key \in DOMAIN acc THEN acc ELSE acc @@ (key :> <<>>)
             item == [type |-> t.type, amount |-> t.amount, timestamp |-> t.timestamp]
         IN  GroupByMonth(Tail(txs), [acc1 EXCEPT ![key] = Append(@, item)])

\* res.status(500).json({ error: "Failed to fetch transactions" })
ErrorResponse == [status |-> 500, body |-> [error |-> "Failed to fetch transactions"]]

NoRequest == [st |-> "none", email |-> "", sawDb |-> FALSE, nresp |-> 0,
              status |-> 0, body |-> <<>>]

\* res.json(...) / res.status(...).json(...): one response written
Respond(r, response) ==
    reqs' = [reqs EXCEPT ![r] = [@ EXCEPT !.st = "done", !.nresp = @ + 1,
                                          !.status = response.status,
                                          !.body = response.body]]

\* MongoClient.connect(MONGO_URI).then(client => { db = client.db("bank_app") })
ConnectResolve ==
    /\ conn = "pending"
    /\ conn' = "resolved"
    /\ db' = "bank_app"
    /\ UNCHANGED <<reqs, store, storeAtStart, deployVars, formVars>>

\* .catch(error => console.error(...)): db stays undefined, the server goes on
ConnectReject ==
    /\ conn = "pending"
    /\ conn' = "rejected"
    /\ UNCHANGED <<db, reqs, store, storeAtStart, deployVars, formVars>>

\* HandleRequest without the try/catch: the TypeError on an undefined db rejects
\* the handler's promise and nothing is sent.
HandleRequestNoCatch(r, email) ==
    /\ reqs[r].st = "none"
    /\ IF db = "undefined"
       THEN reqs' = [reqs EXCEPT ![r] = [@ EXCEPT !.st = "done"]]
       ELSE reqs' = [reqs EXCEPT ![r] = [@ EXCEPT !.st = "awaiting", !.email = email,
                                                  !.sawDb = TRUE]]
    /\ UNCHANGED <<db, conn, store, storeAtStart, deployVars, formVars>>

\* The synchronous part of the handler, up to the await: db.collection(...) on an
\* undefined db throws inside the try, and the catch answers 500.
HandleRequest(r, email) ==
    /\ reqs[r].st = "none"
    /\ IF db = "undefined"
       THEN Respond(r, ErrorResponse)
       ELSE reqs' = [reqs EXCEPT ![r] = [@ EXCEPT !.st = "awaiting", !.email = email,
                                                  !.sawDb = TRUE]]
    /\ UNCHANGED <<db, conn, store, storeAtStart, deployVars, formVars>>

\* toArray() resolves: the documents are grouped and sent
QueryResolve(r) ==
    /\ reqs[r].st = "awaiting"
    /\ Respond(r, [status |-> 200, body |-> GroupByMonth(Find(reqs[r].email), <<>>)])
    /\ UNCHANGED <<db, conn, store, storeAtStart, deployVars, formVars>>

\* toArray() rejects: the catch answers 500
QueryReject(r) ==
    /\ reqs[r].st = "awaiting"
    /\ Respond(r, ErrorResponse)
    /\ UNCHANGED <<db, conn, store, storeAtStart, deployVars, formVars>>

ServerNext ==
    \/ ConnectResolve
    \/ ConnectReject
    \/ \E r \in ReqIds, email \in Emails : HandleRequest(r, email)
    \/ \E r \in ReqIds : QueryResolve(r)
    \/ \E r \in ReqIds : QueryReject(r)

(***************************************************************************)
(* Survey-form validator                                                   *)
(***************************************************************************)

\* Longest e-mail value typed, in characters.
MaxEmailLen == 5

\* Submit events followed.
MaxSubmits == 2

Chars == {"a", "@", ".", " "}

EmailValues == UNION {[1..n -> Chars] : n \in 0..MaxEmailLen}

NameValues == {<<>>, <<"a">>}

DropdownValues == {"", "bus"}

\* /^[^\s@]+@[^\s@]+\.[^\s@]+$/.test(s)
EmailPatternTest(s) ==
    \E i, j \in 1..Len(s) :
        /\ 1 < i /\ i + 1 < j /\ j < Len(s)
        /\ s[i] = "@"
        /\ s[j] = "."
        /\ \A k \in 1..Len(s) : k # i => s[k] \notin {" ", "@"}

\* validateForm(): nameIsNotEmpty(), isSelected(), isValidEmail(), in this order
validateForm(nameEntered, transportationSelection, emailInput) ==
    LET e1 == IF Len(nameEntered) <= 0 THEN <<"Name cannot be empty. ">> ELSE <<>>
        e2 == IF transportationSelection = ""
              THEN <<"Transport type must be selected. ">> ELSE <<>>
        e3 == IF emailInput = <<>> THEN <<"Email cannot be blank. ">> ELSE <<>>
        e4 == IF ~EmailPatternTest(emailInput)
              THEN <<"Please enter a valid email address. ">> ELSE <<>>
        errorMessages == e1 \o e2 \o e3 \o e4
    IN  [isValid |-> errorMessages = <<>>, errorMessages |-> errorMessages]

\* The argument of document.querySelectorAll in clearErrors, as selector tokens:
\* a bare name is a type (tag) selector, "." and a name a class selector.
ClearSelector == <<"error-message">>

ParseSelector(tokens) ==
    IF tokens[1] = "." THEN [kind |-> "class", name |-> tokens[2]]
    ELSE [kind |-> "type", name |-> tokens[1]]

Matches(node, selector) ==
    IF selector.kind = "class" THEN node.class = selector.name
    ELSE node.tag = selector.name

\* clearErrors(): every node the selector matches is removed
clearErrors(nodes) ==
    SelectSeq(nodes, LAMBDA node : ~Matches(node, ParseSelector(ClearSelector)))

\* The span showErrors creates
ErrorSpan(fieldError) ==
    [tag |-> "span", class |-> "error-message", role |-> "alert", text |-> fieldError]

\* showErrors(displayErrorNode, fieldError): displayErrorNode.appendChild(span)
showErrors(nodes, fieldError) == Append(nodes, ErrorSpan(fieldError))

\* errorMessages.forEach(message => showErrors(transportSurveyNode, message.fieldError))
RECURSIVE ShowEach(_, _)
ShowEach(nodes, messages) ==
    IF messages = <<>> THEN nodes
    ELSE ShowEach(showErrors(nodes, Head(messages)), Tail(messages))

\* The children of the form as served: its input fields.
FormChildren == <<[tag |-> "input", class |-> "", role |-> "", text |-> "nameInput"],
                  [tag |-> "input", class |-> "", role |-> "", text |-> "emailInput"],
                  [tag |-> "select", class |-> "", role |-> "", text |-> "transportType"]>>

\* The submit listener. A submit whose default is not prevented sends the form:
\* the page is left.
Submit(nameEntered, transportationSelection, emailInput) ==
    LET validatedObject == validateForm(nameEntered, transportationSelection, emailInput)
        cleared == clearErrors(dom)
    IN  /\ ~navigated
        /\ submits < MaxSubmits
        /\ submits' = submits + 1
        /\ lastErrors' = validatedObject.errorMessages
        /\ IF ~validatedObject.isValid
           THEN /\ defaultPrevented' = TRUE
                /\ dom' = ShowEach(cleared, validatedObject.errorMessages)
                /\ navigated' = FALSE
           ELSE /\ defaultPrevented' = FALSE
                /\ dom' = cleared
                /\ navigated' = TRUE
        /\ UNCHANGED <<deployVars, serverVars>>

\* The page is loaded again and the script runs on the fresh document.
LoadPage ==
    /\ navigated
    /\ navigated' = FALSE
    /\ dom' = FormChildren
    /\ lastErrors' = <<>>
    /\ defaultPrevented' = FALSE
    /\ UNCHANGED <<submits, deployVars, serverVars>>

FormNext ==
    \/ \E n \in NameValues, t \in DropdownValues, e \in EmailValues : Submit(n, t, e)
    \/ LoadPage

(***************************************************************************)
(* Specifications                                                          *)
(***************************************************************************)

\* The host is any host; the service and the form are not running.
DeployInit ==
    /\ tools \in [docker : BOOLEAN, composeBin : BOOLEAN, composePlugin : BOOLEAN,
                  daemon : BOOLEAN, netstat : BOOLEAN, lsof : BOOLEAN]
    \* `docker compose version` and `docker info` need the docker command
    /\ ~tools.docker => ~tools.composePlugin /\ ~tools.daemon
    /\ files \in [composeYaml : BOOLEAN, composeYml : BOOLEAN, backendDir : BOOLEAN,
                  portfolioDir : BOOLEAN, nginxConf : BOOLEAN]
    /\ portKind \in [AllPorts -> {"free", "managed", "foreign"}]
    /\ \A q \in OtherPorts : portKind[q] # "managed"
    /\ pc = "check_docker"
    /\ portIdx = 1
    /\ stopped = FALSE
    /\ started = FALSE
    /\ RETRY_COUNT = 0
    /\ NGINX_CONTAINER_ID = ""
    /\ exitCode = -1
    /\ haltedAt = ""
    /\ calls = <<>>
    /\ warnings = {}
    /\ phases = <<1>>
    /\ resp = <<>>
    /\ probed = {}
    /\ healthy = {}
    /\ guardExit = FALSE
    /\ db = "undefined"
    /\ conn = "pending"
    /\ reqs = [r \in ReqIds |-> NoRequest]
    /\ store = <<>>
    /\ storeAtStart = <<>>
    /\ dom = FormChildren
    /\ lastErrors = <<>>
    /\ defaultPrevented = FALSE
    /\ navigated = FALSE
    /\ submits = 0

DeploySpec == DeployInit /\ [][DeployNext]_vars

\* The collection holds any documents; the connection is pending.
ServerInit ==
    /\ db = "undefined"
    /\ conn = "pending"
    /\ reqs = [r \in ReqIds |-> NoRequest]
    /\ store \in Stores
    /\ storeAtStart = store
    /\ tools = [docker |-> FALSE, composeBin |-> FALSE, composePlugin |-> FALSE,
                daemon |-> FALSE, netstat |-> FALSE, lsof |-> FALSE]
    /\ files = [composeYaml |-> FALSE, composeYml |-> FALSE, backendDir |-> FALSE,
                portfolioDir |-> FALSE, nginxConf |-> FALSE]
    /\ portKind = [q \in AllPorts |-> "free"]
    /\ pc = "check_docker"
    /\ portIdx = 1
    /\ stopped = FALSE
    /\ started = FALSE
    /\ RETRY_COUNT = 0
    /\ NGINX_CONTAINER_ID = ""
    /\ exitCode = -1
    /\ haltedAt = ""
    /\ calls = <<>>
    /\ warnings = {}
    /\ phases = <<1>>
    /\ resp = <<>>
    /\ probed = {}
    /\ healthy = {}
    /\ guardExit = FALSE
    /\ dom = FormChildren
    /\ lastErrors = <<>>
    /\ defaultPrevented = FALSE
    /\ navigated = FALSE
    /\ submits = 0

ServerSpec == ServerInit /\ [][ServerNext]_vars

\* The page as served.
FormInit ==
    /\ dom = FormChildren
    /\ lastErrors = <<>>
    /\ defaultPrevented = FALSE
    /\ navigated = FALSE
    /\ submits = 0
    /\ tools = [docker |-> FALSE, composeBin |-> FALSE, composePlugin |-> FALSE,
                daemon |-> FALSE, netstat |-> FALSE, lsof |-> FALSE]
    /\ files = [composeYaml |-> FALSE, composeYml |-> FALSE, backendDir |-> FALSE,
                portfolioDir |-> FALSE, nginxConf |-> FALSE]
    /\ portKind = [q \in AllPorts |-> "free"]
    /\ pc = "check_docker"
    /\ portIdx = 1
    /\ stopped = FALSE
    /\ started = FALSE
    /\ RETRY_COUNT = 0
    /\ NGINX_CONTAINER_ID = ""
    /\ exitCode = -1
    /\ haltedAt = ""
    /\ calls = <<>>
    /\ warnings = {}
    /\ phases = <<1>>
    /\ resp = <<>>
    /\ probed = {}
    /\ healthy = {}
    /\ guardExit = FALSE
    /\ db = "undefined"
    /\ conn = "pending"
    /\ reqs = [r \in ReqIds |-> NoRequest]
    /\ store = <<>>
    /\ storeAtStart = <<>>

FormSpec == FormInit /\ [][FormNext]_vars

(***************************************************************************)
(* Properties                                                              *)
(***************************************************************************)

Halted == pc = "halted"

ToolsOK == tools.docker /\ (tools.composeBin \/ tools.composePlugin) /\ tools.daemon

FilesOK == /\ files.composeYaml \/ files.composeYml
           /\ files.backendDir /\ files.portfolioDir /\ files.nginxConf

\* Every required port was free when the script started (portKind never changes).
PortsFree == \A q \in RequiredPortSet : portKind[q] = "free"

Invoked(op) == \E i \in 1..Len(calls) : calls[i][1] = op

AllFalse(seq) == \A k \in 1..Len(seq) : ~seq[k]

\* A success on the last probe and on none before it.
FirstSuccessLast(seq) ==
    /\ Len(seq) >= 1
    /\ seq[Len(seq)]
    /\ \A k \in 1..(Len(seq) - 1) : ~seq[k]

FileCheckSteps == {"check_compose_file", "check_backend_dir", "check_portfolio_dir",
                   "check_nginx_conf"}

\* C1 as stated: with a required file or directory absent, the script halts with
\* a non-zero exit and no container action at all - no docker-compose down, no
\* down -v, no up - has been invoked, whatever the state of the ports.
C1_NoContainerActionAtAll ==
    ~FilesOK =>
        /\ Halted => exitCode # 0
        /\ ~Invoked("down") /\ ~Invoked("down -v") /\ ~Invoked("up")

\* C1 as amended: with a required file or directory absent, the script halts with
\* a non-zero exit before the cleanup and build phases (no docker-compose down -v,
\* no docker-compose up, nothing started); the only container action that can
\* precede the halt is the port check's docker-compose down, at most once for each
\* required port.
C1_NoCleanupNoBuild ==
    ~FilesOK =>
        /\ Halted => exitCode # 0
        /\ ~Invoked("down -v") /\ ~Invoked("up") /\ ~started
        /\ pc \notin {"cleanup", "build"}
        /\ \A i \in 1..Len(calls) :
             /\ calls[i][1] = "down"
             /\ calls[i][2] \in RequiredPortSet
             /\ \A j \in 1..Len(calls) : calls[j] = calls[i] => j = i

\* C1's case: a file is missing, the port check has run docker-compose down, and
\* the script has halted at file validation.
C1_Witness ==
    /\ Halted /\ ~FilesOK /\ ToolsOK
    /\ haltedAt \in FileCheckSteps
    /\ Invoked("down")

\* C2: a health check succeeds at attempt K (1 <= K <= MAX_RETRIES) exactly when
\* probe K is the first successful one, and fails (exit 1) exactly when all
\* MAX_RETRIES probes were unsuccessful; no probe follows the MAX_RETRIES-th.
C2_PollingOutcome ==
    /\ Len(resp) <= MAX_RETRIES
    \* polling goes on: nothing succeeded yet and budget is left
    /\ pc \in {"backend_loop", "backend_probe", "frontend_loop", "frontend_probe"}
         => AllFalse(resp) /\ Len(resp) < MAX_RETRIES
    \* the backend check, then the frontend check, has just succeeded
    /\ pc = "frontend_init" => FirstSuccessLast(resp) /\ 5000 \in healthy
    /\ pc \in {"inspect", "summary"} => FirstSuccessLast(resp) /\ 80 \in healthy
    \* a check has failed
    /\ Halted /\ haltedAt \in {"backend_probe", "frontend_probe"}
         => exitCode = 1 /\ Len(resp) = MAX_RETRIES /\ AllFalse(resp)
    /\ Halted /\ haltedAt = "backend_probe" => 5000 \notin healthy
    /\ Halted /\ haltedAt = "frontend_probe" => 80 \notin healthy

\* C2's case: the backend check succeeded on its last permitted probe.
C2_Witness ==
    /\ pc = "frontend_init"
    /\ Len(resp) = MAX_RETRIES
    /\ resp[MAX_RETRIES]

AllPhases == <<1, 2, 3, 4, 5, 6, 7, 8, 9>>

\* C3 as stated: with all tools installed, all files present and all required
\* ports free, every run completes the 9 phases in order and exits 0. "Compose
\* installed" is read here in the sense most favourable to the statement: the
\* docker-compose binary the script calls is on the PATH.
C3_AlwaysExitsZero ==
    Halted /\ ToolsOK /\ tools.composeBin /\ FilesOK /\ PortsFree
        => exitCode = 0 /\ phases = AllPhases

FatalSteps == {"build", "list_images", "show_containers", "get_nginx_id",
               "backend_probe", "frontend_probe", "inspect"}

\* C3 as amended: with all tools installed, all files present and all required
\* ports free, a run never halts in phases 1 to 4; it either completes the 9
\* phases in order and exits 0, with the containers started, the nginx container
\* found and both endpoints healthy, or it halts with a non-zero exit at a failed
\* fatal step of phases 5 to 8 (build, image listing, docker ps, nginx container
\* lookup, a health check, docker inspect).
C3_ExitsZeroUnlessFatalStepFails ==
    Halted /\ ToolsOK /\ FilesOK /\ PortsFree =>
        \/ /\ exitCode = 0
           /\ haltedAt = "summary"
           /\ phases = AllPhases
           /\ started /\ NGINX_CONTAINER_ID # "" /\ healthy = {5000, 80}
           /\ Invoked("up") /\ Invoked("inspect")
        \/ /\ exitCode # 0
           /\ haltedAt \in FatalSteps

\* C3's case: such a host, and the run has ended with exit code 0.
C3_Witness ==
    Halted /\ ToolsOK /\ FilesOK /\ PortsFree /\ exitCode = 0

\* The backend check has used MAX_RETRIES probes and none succeeded.
BackendNeverResponded ==
    /\ 5000 \in probed /\ 80 \notin probed
    /\ 5000 \notin healthy
    /\ Len(resp) = MAX_RETRIES /\ AllFalse(resp)

\* C4: when all MAX_RETRIES backend probes are unsuccessful the script halts in
\* the health-check phase with a non-zero exit, after docker-compose up has run;
\* no frontend probe, image inspection or summary is performed, and no teardown
\* follows the build: the started containers are left running.
C4_BackendExhausted ==
    BackendNeverResponded =>
        /\ Halted /\ haltedAt = "backend_probe" /\ exitCode # 0
        /\ phases = <<1, 2, 3, 4, 5, 6, 7>>
        /\ calls # <<>> /\ calls[Len(calls)][1] = "up"
        /\ ~Invoked("inspect")
        /\ started

\* C4's case: the backend never responded and the script has halted.
C4_Witness == BackendNeverResponded /\ Halted

\* C5: the port check runs a cleanup (docker-compose down, sleep 2) only for a
\* required port that was in use before the script started: never for a port
\* that was free, and not at all when the four ports are free.
C5_NoCleanupForFreePort ==
    /\ \A i \in 1..Len(calls) : calls[i][1] = "down" => portKind[calls[i][2]] # "free"
    /\ PortsFree => ~Invoked("down")

\* C6: the port check and the cleanup never halt the script - a port still in
\* use after the stop-and-recheck is only a warning and a failing docker-compose
\* down is swallowed - so whenever the tools and the files are in place the
\* build-and-start step is reached.
C6_NonFatalPhases ==
    /\ Halted => haltedAt \notin {"port_check", "port_down", "port_recheck", "cleanup"}
    /\ Halted /\ ToolsOK /\ FilesOK => Invoked("up") /\ Invoked("down -v")
    /\ warnings # {} /\ FilesOK /\ Halted => Invoked("up")

\* C6's case: a port was still in use after the recheck, no teardown succeeded,
\* and docker-compose up has been invoked.
C6_Witness ==
    /\ warnings # {}
    /\ \E q \in warnings : portKind[q] = "managed"
    /\ Invoked("down") /\ Invoked("down -v") /\ Invoked("up")

\* C7: the phases are entered in order, one after the other; no frontend probe
\* is issued before the backend check has succeeded; and the frontend check
\* starts from RETRY_COUNT = 0, so that it fails only after MAX_RETRIES probes of
\* its own.
C7_SequentialHealthChecks ==
    /\ \A i \in 1..Len(phases) : phases[i] = i
    /\ ~Halted => PhaseOf(pc) = Len(phases)
    /\ 80 \in probed => 5000 \in healthy
    /\ pc \in {"frontend_init", "frontend_loop", "frontend_probe"} => 5000 \in healthy
    /\ pc \in {"frontend_loop", "frontend_probe"} => RETRY_COUNT = Len(resp)
    /\ Halted /\ haltedAt = "frontend_probe" => Len(resp) = MAX_RETRIES

\* C7's case: the frontend check has used its whole budget after a backend check
\* that succeeded.
C7_Witness ==
    /\ Halted /\ haltedAt = "frontend_probe"
    /\ Len(resp) = MAX_RETRIES
    /\ 5000 \in healthy

\* C8: 0 <= RETRY_COUNT <= MAX_RETRIES always; a health check ends either by the
\* success break, with RETRY_COUNT < MAX_RETRIES, or by halting the script with
\* a failure; no polling loop is ever left through its guard.
C8_RetryCounterBounds ==
    /\ RETRY_COUNT \in 0..MAX_RETRIES
    /\ ~guardExit
    /\ pc \in {"frontend_init", "inspect", "summary"} => RETRY_COUNT < MAX_RETRIES
    /\ RETRY_COUNT = MAX_RETRIES =>
         Halted /\ exitCode # 0 /\ haltedAt \in {"backend_probe", "frontend_probe"}
    /\ pc = "frontend_init" => 5000 \in healthy
    /\ pc = "inspect" => 80 \in healthy

\* C8's case: the counter has reached MAX_RETRIES.
C8_Witness == RETRY_COUNT = MAX_RETRIES /\ Halted

\* C9: every handled request gets exactly one response; a request handled while
\* db is undefined (the connection still pending, or failed) is answered 500 with
\* the error body, and the server goes on serving; only a request handled after
\* db was set can be answered with grouped transactions; the collection is never
\* written.
C9_OneResponsePerRequest ==
    /\ \A r \in ReqIds :
         /\ reqs[r].nresp <= 1
         /\ reqs[r].st = "done" <=> reqs[r].nresp = 1
         /\ reqs[r].st = "done" /\ ~reqs[r].sawDb =>
              reqs[r].status = 500 /\ reqs[r].body = ErrorResponse.body
         /\ reqs[r].st = "done" => reqs[r].status \in {200, 500}
         /\ reqs[r].status = 200 => reqs[r].sawDb
         /\ reqs[r].sawDb => conn = "resolved"
    /\ conn # "resolved" => db = "undefined"
    /\ store = storeAtStart

\* C9's case: one request was answered 500 before db was set, and a later one
\* got its grouped transactions.
C9_Witness ==
    \E r1, r2 \in ReqIds :
        /\ reqs[r1].st = "done" /\ ~reqs[r1].sawDb /\ reqs[r1].status = 500
        /\ reqs[r2].st = "done" /\ reqs[r2].status = 200
        /\ DOMAIN reqs[r2].body # {}

ErrorTexts ==
    LET spans == SelectSeq(dom, LAMBDA node : node.class = "error-message")
    IN  [i \in 1..Len(spans) |-> spans[i].text]

\* C10: after any sequence of submits the error spans in the form are exactly
\* the validation errors of the most recent submit (earlier ones are removed,
\* none accumulate), and a valid submit leaves no error span and does not call
\* preventDefault.
C10_ErrorsOfLastSubmitOnly ==
    /\ ErrorTexts = lastErrors
    /\ submits > 0 /\ lastErrors = <<>> => ~defaultPrevented

====
